---- MODULE Spec2Model ----
(***************************************************************************)
(* Model of lordcli (src/src/main.rs): one invocation of the command-line  *)
(* tool.  The control thread runs main() from the parsed arguments to its  *)
(* return; the lordserial session it drives (Lord::new, start, get_data,   *)
(* send, set_*_format, *_base_rate) is a library that is not part of       *)
(* main.rs, so its behaviour is taken from the specification and every    *)
(* result it can return is a nondeterministic choice.                      *)
(***************************************************************************)
EXTENDS Integers, Sequences, FiniteSets, TLC

\* ------------------------------------------------------------------ bounds

\* Telemetry packets the codec decodes in one run.
MaxPackets == 3
\* Latest instant the monotonic clock reaches, in clock ticks.
MaxTime == 4
\* Clock ticks per millisecond: Instant is finer than the reported unit.
TicksPerMilli == 2
\* Longest entry table drawn for the command builder.
MaxEntries == 2

\* ------------------------------------------------------------- vocabulary

\* main.rs:22-28, plus an invocation that names no subcommand
Modes == {"test", "configure", "read", "list", "rate", "packet", "ekf", "none"}

\* Telemetry descriptors the device emits (IMU, GNSS, estimation filter).
Descriptors == {128, 129, 130}

\* Errors a blocking command returns after the packet was transmitted.
ReplyErrors == {"DeviceNack", "Timeout"}

NoError == "none"

VARIABLES
    mode,           \* the subcommand clap matched
    pc,             \* position of the control thread in main()
    blocked,        \* the control thread is inside a blocking command
    lord,           \* session: "closed", "idle" or "awaiting"
    reader,         \* lord.start() has started the codec's reader
    outstanding,    \* call sites whose command awaits its acknowledgment
    sent,           \* call sites whose command was transmitted, in order
    ops,            \* kinds of Session operation performed so far
    stdout,         \* lines printed with println!
    stderr,         \* lines printed with eprintln! or by main's Err return
    exitCode,       \* -1 while running
    err,            \* the error a command returned, NoError before
    buffer,         \* codec: decoded packets not yet polled
    arrived,        \* codec: packets decoded so far
    polled,         \* packets get_data has returned
    clock,          \* last instant Instant::now() returned
    seconds_since,  \* read loop: descriptor -> instant of its last packet
    observed,       \* read loop: (descriptor, instant) of every packet seen
    fn_in,          \* command builder: function code given
    entries_in,     \* command builder: entry table given
    built           \* command builder: its result

vars == <<mode, pc, blocked, lord, reader, outstanding, sent, ops, stdout,
          stderr, exitCode, err, buffer, arrived, polled, clock,
          seconds_since, observed, fn_in, entries_in, built>>

builderVars == <<fn_in, entries_in, built>>
codecVars == <<buffer, arrived, polled>>
timingVars == <<clock, seconds_since, observed>>
sessionVars == <<lord, outstanding, sent>>
outputVars == <<stdout, stderr>>

\* HashMap::new()
EmptyMap == [d \in {} |-> 0]

NotBuilt == [status |-> "none"]

\* ------------------------------------------------- the session (lordserial)

\* A telemetry packet: its header's descriptor, and the order it was decoded in.
Packet(d, n) == [descriptor |-> d, id |-> n]

\* lord.get_data(): the next decoded packet if one is buffered, without blocking.
HasData(buf) == buf # <<>>
NextData(buf) == Head(buf)
\* get_data that leaves the packet it returns in the buffer.
DrainedPeek(buf) == buf
Drained(buf) == IF HasData(buf) THEN Tail(buf) ELSE buf

\* The codec's reader decodes one more packet from the serial stream.
Decode ==
    /\ reader
    /\ exitCode = -1
    /\ arrived < MaxPackets
    /\ \E d \in Descriptors :
          buffer' = Append(buffer, Packet(d, arrived + 1))
    /\ arrived' = arrived + 1
    /\ UNCHANGED <<mode, pc, blocked, lord, reader, outstanding, sent, ops,
                   stdout, stderr, exitCode, err, polled, clock,
                   seconds_since, observed, fn_in, entries_in, built>>

\* -------------------------------------------------- the command builder

\* Function codes of a format command that main.rs uses.
Apply == 1
Save == 3
RecognizedFunctions == {Apply, Save}

\* One entry (channel_id: u8, decimation: u16) serialized: the channel, then
\* the decimation as two bytes, most significant first.
EntryBytes(e) == <<e[1], e[2] \div 256, e[2] % 256>>

RECURSIVE EntriesBytes(_)
EntriesBytes(entries) ==
    IF entries = <<>> THEN <<>>
    ELSE EntryBytes(Head(entries)) \o EntriesBytes(Tail(entries))

\* The payload of a format field: function, count, then the entries in order.
FormatPayload(function, entries) ==
    <<function, Len(entries)>> \o EntriesBytes(entries)

InvalidConfiguration == [status |-> "InvalidConfiguration"]

\* build_format_command that does not look at the decimations.
build_format_command_any_rate(function, entries) ==
    IF function \notin RecognizedFunctions THEN [status |-> "InvalidConfiguration"]
    ELSE IF function = Apply /\ entries = <<>>
         THEN [status |-> "InvalidConfiguration"]
    ELSE [status |-> "ok", payload |-> FormatPayload(function, entries)]

\* build_format_command that accepts an empty apply.
build_format_command_empty_ok(function, entries) ==
    IF function \notin RecognizedFunctions THEN [status |-> "InvalidConfiguration"]
    ELSE IF \E i \in 1..Len(entries) : entries[i][2] = 0
         THEN [status |-> "InvalidConfiguration"]
    ELSE [status |-> "ok", payload |-> FormatPayload(function, entries)]

\* build_format_command: the payload, or InvalidConfiguration for a function
\* code that is not recognized, an empty apply or a decimation of 0.
build_format_command(function, entries) ==
    IF function \notin RecognizedFunctions THEN InvalidConfiguration
    ELSE IF function = Apply /\ entries = <<>> THEN InvalidConfiguration
    ELSE IF \E i \in 1..Len(entries) : entries[i][2] = 0
         THEN InvalidConfiguration
    ELSE [status |-> "ok", payload |-> FormatPayload(function, entries)]

\* The entry tables main.rs passes to set_imu_format, set_gnss_format and
\* set_estimation_format.
ConfigureImuEntries == <<<<6, 50>>, <<4, 50>>, <<5, 50>>, <<10, 50>>, <<23, 50>>>>
\* ConfigureGnssEntries ending in channel 0x05, as the hand-built GNSS field does.
ConfigureGnssEntriesAsPacket == <<<<9, 5>>, <<11, 5>>, <<3, 5>>, <<7, 5>>, <<5, 5>>>>
ConfigureGnssEntries == <<<<9, 5>>, <<11, 5>>, <<3, 5>>, <<7, 5>>, <<4, 5>>>>
EkfEstimationEntries == <<<<1, 50>>, <<17, 50>>>>
EkfGnssEntries == <<<<3, 4>>, <<9, 4>>>>

\* The three format fields the packet mode builds by hand (field id, bytes).
\* PacketImuFormat with a count byte that misses its last entry.
PacketImuFormatShortCount ==
    [id |-> 8, payload |-> <<1, 4, 23, 0, 10, 6, 0, 10, 4, 0, 10,
                             5, 0, 10, 10, 0, 10>>]
PacketImuFormat ==
    [id |-> 8, payload |-> <<1, 5, 23, 0, 10, 6, 0, 10, 4, 0, 10,
                             5, 0, 10, 10, 0, 10>>]
PacketGnssFormat ==
    [id |-> 9, payload |-> <<1, 5, 9, 0, 1, 11, 0, 1, 3, 0, 1,
                             7, 0, 1, 5, 0, 1>>]
PacketEstimationFormat ==
    [id |-> 10, payload |-> <<1, 5, 17, 0, 10, 1, 0, 10, 2, 0, 10,
                              3, 0, 10, 16, 0, 10>>]
PacketFormatFields ==
    {PacketImuFormat, PacketGnssFormat, PacketEstimationFormat}

\* The entry table a hand-built payload spells out: one (channel, decimation)
\* per three bytes after the function and count bytes.
TableOf(payload) ==
    [i \in 1..((Len(payload) - 2) \div 3) |->
        <<payload[3 * i], payload[3 * i + 1] * 256 + payload[3 * i + 2]>>]

\* The format request each call site of main.rs makes.
FormatSites == {"cfg_imu", "cfg_gnss", "ekf_est", "ekf_gnss"}
SiteEntries(site) ==
    CASE site = "cfg_imu" -> ConfigureImuEntries
      [] site = "cfg_gnss" -> ConfigureGnssEntries
      [] site = "ekf_est" -> EkfEstimationEntries
      [] site = "ekf_gnss" -> EkfGnssEntries

\* The function code every format call of main.rs passes: 0x01.
SiteFunction(site) == Apply

\* ------------------------------------------------------- main(): start-up

Line(t) == [text |-> t]

\* main returns Err(e) through `?`: the runtime prints it and exits non-zero.
Propagate(e) ==
    /\ err' = e
    /\ stderr' = Append(stderr, [text |-> "Error", error |-> e])
    /\ exitCode' = 1
    /\ pc' = "done"
    /\ blocked' = FALSE

\* serialport::new(port_name, 115200).open() succeeds
OpenOk ==
    /\ pc = "open"
    /\ pc' = "new"
    /\ UNCHANGED <<mode, blocked, lord, reader, outstanding, sent, ops, stdout,
                   stderr, exitCode, err, buffer, arrived, polled, clock,
                   seconds_since, observed, fn_in, entries_in, built>>

\* OpenFail without the process::exit: the failure is reported and main goes on.
OpenFailGoesOn ==
    /\ pc = "open"
    /\ stderr' = Append(stderr, Line("Failed to open"))
    /\ pc' = "new"
    /\ UNCHANGED <<mode, blocked, lord, reader, outstanding, sent, ops, stdout,
                   exitCode, err, buffer, arrived, polled, clock,
                   seconds_since, observed, fn_in, entries_in, built>>

\* open() fails: unwrap_or_else reports it and calls process::exit(0)
OpenFail ==
    /\ pc = "open"
    /\ stderr' = Append(stderr, Line("Failed to open"))
    /\ exitCode' = 0
    /\ pc' = "exited"
    /\ UNCHANGED <<mode, blocked, lord, reader, outstanding, sent, ops, stdout,
                   err, buffer, arrived, polled, clock, seconds_since,
                   observed, fn_in, entries_in, built>>

\* let mut lord = Lord::new(serial)
LordNew ==
    /\ pc = "new"
    /\ lord' = "idle"
    /\ ops' = ops \cup {"new"}
    /\ pc' = "start"
    /\ UNCHANGED <<mode, blocked, reader, outstanding, sent, stdout, stderr,
                   exitCode, err, buffer, arrived, polled, clock,
                   seconds_since, observed, fn_in, entries_in, built>>

\* lord.start()
LordStart ==
    /\ pc = "start"
    /\ reader' = TRUE
    /\ ops' = ops \cup {"start"}
    /\ pc' = "if_test"
    /\ UNCHANGED <<mode, blocked, lord, outstanding, sent, stdout, stderr,
                   exitCode, err, buffer, arrived, polled, clock,
                   seconds_since, observed, fn_in, entries_in, built>>

\* ------------------------------------------------- blocking commands

SessionAfter(out) == IF out = {} THEN "idle" ELSE "awaiting"

\* The command's packet is written to the transport; the caller now blocks
\* until the device answers or the response window closes.
Transmit(site) ==
    /\ sent' = Append(sent, site)
    /\ outstanding' = outstanding \cup {site}
    /\ lord' = "awaiting"
    /\ blocked' = TRUE

\* The session is dropped when main returns.
Dropped == lord' = "closed"

\* `lord.command(..)?`, entered: the packet is built and serialized, and
\* transmitted unless that fails; a failure returns from main at once.
Try(site) ==
    /\ pc = site
    /\ ~blocked
    /\ ops' = ops \cup {"send"}
    /\ IF site \in FormatSites
          /\ build_format_command(SiteFunction(site),
                                  SiteEntries(site)).status # "ok"
       THEN /\ Propagate("InvalidConfiguration")
            /\ Dropped
            /\ UNCHANGED <<outstanding, sent>>
       ELSE \/ /\ Transmit(site)
               /\ UNCHANGED <<pc, err, stderr, exitCode>>
            \/ /\ Propagate("FrameError")
               /\ Dropped
               /\ UNCHANGED <<outstanding, sent>>
    /\ UNCHANGED <<mode, reader, stdout, codecVars, timingVars, builderVars>>

\* `lord.command(..)?`, returning: on an acknowledgment main goes on (printing
\* okText, if any); a negative acknowledgment or a timeout returns from main.
TryReturn(site, okText, next) ==
    /\ pc = site
    /\ blocked
    /\ outstanding' = outstanding \ {site}
    /\ \/ /\ lord' = SessionAfter(outstanding')
          /\ blocked' = FALSE
          /\ stdout' = IF okText = "" THEN stdout
                       ELSE Append(stdout, Line(okText))
          /\ pc' = next
          /\ UNCHANGED <<err, stderr, exitCode>>
       \/ \E e \in ReplyErrors :
             /\ Propagate(e)
             /\ Dropped
             /\ UNCHANGED stdout
    /\ UNCHANGED <<mode, reader, sent, ops, codecVars, timingVars, builderVars>>

\* IfMode whose test is always taken.
IfModeAlways(at, name, then, else) ==
    /\ pc = at
    /\ pc' = then
    /\ UNCHANGED <<mode, blocked, lord, reader, outstanding, sent, ops, stdout,
                   stderr, exitCode, err, buffer, arrived, polled, clock,
                   seconds_since, observed, fn_in, entries_in, built>>

\* An `if let Some(_) = matches.subcommand_matches(name)` that is not a loop.
IfMode(at, name, then, else) ==
    /\ pc = at
    /\ pc' = IF mode = name THEN then ELSE else
    /\ UNCHANGED <<mode, blocked, lord, reader, outstanding, sent, ops, stdout,
                   stderr, exitCode, err, buffer, arrived, polled, clock,
                   seconds_since, observed, fn_in, entries_in, built>>

\* ------------------------------------------------------------ test mode

IfTest == IfMode("if_test", "test", "test_loop", "if_rate")

\* One iteration of the test loop: poll, and dump the packet if there is one.
TestLoop ==
    /\ pc = "test_loop"
    /\ ops' = ops \cup {"poll"}
    /\ IF HasData(buffer)
       THEN /\ polled' = Append(polled, NextData(buffer))
            /\ stdout' = Append(stdout, [text |-> "data", data |-> NextData(buffer)])
       ELSE UNCHANGED <<polled, stdout>>
    /\ buffer' = Drained(buffer)
    /\ UNCHANGED <<mode, pc, blocked, lord, reader, outstanding, sent, stderr,
                   exitCode, err, arrived, clock, seconds_since, observed,
                   fn_in, entries_in, built>>

\* ------------------------------------------------------------ rate mode

IfRate == IfMode("if_rate", "rate", "rate_imu", "if_configure")
RateImuCall == Try("rate_imu")
RateImuReturn == TryReturn("rate_imu", "IMU Rate", "rate_gnss")
RateGnssCall == Try("rate_gnss")
\* RateGnssReturn with a retry: a timeout sends the query again.
RateGnssReturnRetry ==
    /\ pc = "rate_gnss"
    /\ blocked
    /\ outstanding' = outstanding \ {"rate_gnss"}
    /\ lord' = SessionAfter(outstanding')
    /\ blocked' = FALSE
    /\ \/ /\ stdout' = Append(stdout, Line("GNSS Rate"))
          /\ pc' = "if_configure"
          /\ UNCHANGED err
       \/ /\ err' = "Timeout"
          /\ UNCHANGED <<pc, stdout>>
    /\ UNCHANGED <<mode, reader, sent, ops, stderr, exitCode, codecVars,
                   timingVars, builderVars>>
RateGnssReturn == TryReturn("rate_gnss", "GNSS Rate", "if_configure")

\* ------------------------------------------------------- configure mode

IfConfigure == IfMode("if_configure", "configure", "cfg_imu", "if_packet")
CfgImuCall == Try("cfg_imu")
\* CfgImuReturn without the `?`: the result is dropped and main goes on.
CfgImuReturnIgnored ==
    /\ pc = "cfg_imu"
    /\ blocked
    /\ outstanding' = outstanding \ {"cfg_imu"}
    /\ lord' = SessionAfter(outstanding')
    /\ blocked' = FALSE
    /\ stdout' = Append(stdout, Line("IMU Configured"))
    /\ pc' = "cfg_gnss"
    /\ \/ UNCHANGED err
       \/ \E e \in ReplyErrors : err' = e
    /\ UNCHANGED <<mode, reader, sent, ops, stderr, exitCode, codecVars,
                   timingVars, builderVars>>
CfgImuReturn == TryReturn("cfg_imu", "IMU Configured", "cfg_gnss")
CfgGnssCall == Try("cfg_gnss")
CfgGnssReturn == TryReturn("cfg_gnss", "GNSS Configured", "if_packet")

\* ---------------------------------------------------------- packet mode

IfPacket == IfMode("if_packet", "packet", "packet_bytes", "if_ekf")

\* println!("{:#02X?}", packet.to_bytes()?)
PacketBytes ==
    /\ pc = "packet_bytes"
    /\ \/ /\ stdout' = Append(stdout, Line("packet bytes"))
          /\ pc' = "packet_send"
          /\ UNCHANGED <<err, stderr, exitCode, blocked, lord>>
       \/ /\ Propagate("FrameError")
          /\ Dropped
          /\ UNCHANGED stdout
    /\ UNCHANGED <<mode, reader, outstanding, sent, ops, codecVars, timingVars,
                   builderVars>>

\* lord.send(packet), entered
PacketSendCall ==
    /\ pc = "packet_send"
    /\ ~blocked
    /\ ops' = ops \cup {"send"}
    /\ \/ /\ Transmit("packet_send")
          /\ UNCHANGED <<pc, err, stdout>>
       \/ /\ err' = "FrameError"
          /\ stdout' = Append(stdout, [text |-> "Error", error |-> "FrameError"])
          /\ pc' = "if_ekf"
          /\ UNCHANGED <<outstanding, sent, lord, blocked>>
    /\ UNCHANGED <<mode, reader, stderr, exitCode, codecVars, timingVars,
                   builderVars>>

\* lord.send(packet), returning: the match prints either result and goes on
PacketSendReturn ==
    /\ pc = "packet_send"
    /\ blocked
    /\ outstanding' = outstanding \ {"packet_send"}
    /\ lord' = SessionAfter(outstanding')
    /\ blocked' = FALSE
    /\ pc' = "if_ekf"
    /\ \/ /\ stdout' = Append(stdout, Line("Sent"))
          /\ UNCHANGED err
       \/ \E e \in ReplyErrors :
             /\ err' = e
             /\ stdout' = Append(stdout, [text |-> "Error", error |-> e])
    /\ UNCHANGED <<mode, reader, sent, ops, stderr, exitCode, codecVars,
                   timingVars, builderVars>>

\* ------------------------------------------------------------- ekf mode

IfEkf == IfMode("if_ekf", "ekf", "ekf_est", "if_read")
\* EkfEstCall that does not wait: the command is written and main goes on.
EkfEstCallNoWait ==
    /\ pc = "ekf_est"
    /\ ~blocked
    /\ ops' = ops \cup {"send"}
    /\ sent' = Append(sent, "ekf_est")
    /\ outstanding' = outstanding \cup {"ekf_est"}
    /\ lord' = "awaiting"
    /\ pc' = "ekf_gnss"
    /\ UNCHANGED <<mode, blocked, reader, stdout, stderr, exitCode, err,
                   codecVars, timingVars, builderVars>>
EkfEstCall == Try("ekf_est")
EkfEstReturn == TryReturn("ekf_est", "", "ekf_gnss")
EkfGnssCall == Try("ekf_gnss")
\* EkfGnssReturn without the `?`: the result is dropped and main goes on.
EkfGnssReturnIgnored ==
    /\ pc = "ekf_gnss"
    /\ blocked
    /\ outstanding' = outstanding \ {"ekf_gnss"}
    /\ lord' = SessionAfter(outstanding')
    /\ blocked' = FALSE
    /\ pc' = "ekf_enable"
    /\ \/ UNCHANGED err
       \/ \E e \in ReplyErrors : err' = e
    /\ UNCHANGED <<mode, reader, sent, ops, stdout, stderr, exitCode,
                   codecVars, timingVars, builderVars>>
EkfGnssReturn == TryReturn("ekf_gnss", "", "ekf_enable")
EkfEnableCall == Try("ekf_enable")
\* EkfEnableReturn with no response window: it returns only once the device
\* has sent something.
EkfEnableReturnNoTimeout ==
    /\ buffer # <<>>
    /\ TryReturn("ekf_enable", "", "if_read")
EkfEnableReturn == TryReturn("ekf_enable", "", "if_read")

\* ------------------------------------------------------------ read mode

\* Duration::as_millis: whole milliseconds, the rest dropped.
as_millis(ticks) == ticks \div TicksPerMilli

\* ElapsedMs against one shared instant: the last packet of any descriptor.
ElapsedMsSinceAny(map, d, now) ==
    IF DOMAIN map = {} THEN 0
    ELSE as_millis(now - (CHOOSE t \in {map[e] : e \in DOMAIN map} :
                             \A e \in DOMAIN map : map[e] <= t))

\* match seconds_since.get(&descriptor) { Some(old) => (now - *old).as_millis(), None => 0 }
ElapsedMs(map, d, now) ==
    IF d \in DOMAIN map THEN as_millis(now - map[d]) ELSE 0

\* Insert into a map made anew for each packet.
InsertFresh(map, d, now) == [e \in {d} |-> now]

\* Insert that keeps a stored instant: entry(descriptor).or_insert(now).
InsertIfAbsent(map, d, now) ==
    [e \in DOMAIN map \cup {d} |-> IF e \in DOMAIN map THEN map[e] ELSE now]

\* seconds_since.insert(descriptor, now)
Insert(map, d, now) ==
    [e \in DOMAIN map \cup {d} |-> IF e = d THEN now ELSE map[e]]

\* ReadPrint that skips a packet whose elapsed time is zero.
ReadPrintNonZero(out, ms, data) ==
    IF ms = 0 THEN out
    ELSE Append(out, [text |-> "read", ms |-> ms, data |-> data])

\* println!("{:02}ms {}", ms, data)
ReadPrint(out, ms, data) ==
    Append(out, [text |-> "read", ms |-> ms, data |-> data])

\* IfRead that enters the loop whatever the subcommand.
IfReadAlways ==
    /\ pc = "if_read"
    /\ seconds_since' = EmptyMap
    /\ pc' = "read_loop"
    /\ UNCHANGED <<mode, blocked, lord, reader, outstanding, sent, ops, stdout,
                   stderr, exitCode, err, buffer, arrived, polled, clock,
                   observed, fn_in, entries_in, built>>

\* `if let Some(_) = matches.subcommand_matches("read")`: the map is created
\* and the loop entered; otherwise main returns Ok(()).
IfRead ==
    /\ pc = "if_read"
    /\ IF mode = "read"
       THEN /\ seconds_since' = EmptyMap
            /\ pc' = "read_loop"
            /\ UNCHANGED <<lord, exitCode>>
       ELSE /\ pc' = "done"
            /\ exitCode' = 0
            /\ Dropped
            /\ UNCHANGED seconds_since
    /\ UNCHANGED <<mode, blocked, reader, outstanding, sent, ops, stdout,
                   stderr, err, buffer, arrived, polled, clock, observed,
                   fn_in, entries_in, built>>

\* ReadLoop that breaks out when the poll returns nothing.
ReadLoopBreaks ==
    /\ pc = "read_loop"
    /\ ops' = ops \cup {"poll"}
    /\ IF HasData(buffer)
       THEN \E now \in clock..MaxTime :
               LET data == NextData(buffer)
                   d == data.descriptor
                   ms == ElapsedMs(seconds_since, d, now)
               IN  /\ polled' = Append(polled, data)
                   /\ clock' = now
                   /\ seconds_since' = Insert(seconds_since, d, now)
                   /\ observed' = Append(observed, [descriptor |-> d, at |-> now])
                   /\ stdout' = ReadPrint(stdout, ms, data)
                   /\ UNCHANGED <<pc, exitCode, lord>>
       ELSE /\ pc' = "done"
            /\ exitCode' = 0
            /\ Dropped
            /\ UNCHANGED <<polled, clock, seconds_since, observed, stdout>>
    /\ buffer' = Drained(buffer)
    /\ UNCHANGED <<mode, blocked, reader, outstanding, sent, stderr, err,
                   arrived, fn_in, entries_in, built>>

\* One iteration of the read loop: poll; for a packet, time it against the
\* last one of its descriptor, store the new instant and print.
ReadLoop ==
    /\ pc = "read_loop"
    /\ ops' = ops \cup {"poll"}
    /\ IF HasData(buffer)
       THEN \E now \in clock..MaxTime :
               LET data == NextData(buffer)
                   d == data.descriptor
                   ms == ElapsedMs(seconds_since, d, now)
               IN  /\ polled' = Append(polled, data)
                   /\ clock' = now
                   /\ seconds_since' = Insert(seconds_since, d, now)
                   /\ observed' = Append(observed, [descriptor |-> d, at |-> now])
                   /\ stdout' = ReadPrint(stdout, ms, data)
       ELSE UNCHANGED <<polled, clock, seconds_since, observed, stdout>>
    /\ buffer' = Drained(buffer)
    /\ UNCHANGED <<mode, pc, blocked, lord, reader, outstanding, sent, stderr,
                   exitCode, err, arrived, fn_in, entries_in, built>>

\* ------------------------------------------------------- specification

Init ==
    /\ mode \in Modes
    /\ pc = "open"
    /\ blocked = FALSE
    /\ lord = "closed"
    /\ reader = FALSE
    /\ outstanding = {}
    /\ sent = <<>>
    /\ ops = {}
    /\ stdout = <<>>
    /\ stderr = <<>>
    /\ exitCode = -1
    /\ err = NoError
    /\ buffer = <<>>
    /\ arrived = 0
    /\ polled = <<>>
    /\ clock = 0
    /\ seconds_since = EmptyMap
    /\ observed = <<>>
    /\ fn_in = 0
    /\ entries_in = <<>>
    /\ built = NotBuilt

Next ==
    \/ OpenOk \/ OpenFail \/ LordNew \/ LordStart \/ Decode
    \/ IfTest \/ TestLoop
    \/ IfRate \/ RateImuCall \/ RateImuReturn \/ RateGnssCall \/ RateGnssReturn
    \/ IfConfigure \/ CfgImuCall \/ CfgImuReturn \/ CfgGnssCall \/ CfgGnssReturn
    \/ IfPacket \/ PacketBytes \/ PacketSendCall \/ PacketSendReturn
    \/ IfEkf \/ EkfEstCall \/ EkfEstReturn \/ EkfGnssCall \/ EkfGnssReturn
    \/ EkfEnableCall \/ EkfEnableReturn
    \/ IfRead \/ ReadLoop

Spec == Init /\ [][Next]_vars

\* The steps of the control thread: every action of main(), not the codec's.
Control ==
    \/ OpenOk \/ OpenFail \/ LordNew \/ LordStart
    \/ IfTest \/ TestLoop
    \/ IfRate \/ RateImuCall \/ RateImuReturn \/ RateGnssCall \/ RateGnssReturn
    \/ IfConfigure \/ CfgImuCall \/ CfgImuReturn \/ CfgGnssCall \/ CfgGnssReturn
    \/ IfPacket \/ PacketBytes \/ PacketSendCall \/ PacketSendReturn
    \/ IfEkf \/ EkfEstCall \/ EkfEstReturn \/ EkfGnssCall \/ EkfGnssReturn
    \/ EkfEnableCall \/ EkfEnableReturn
    \/ IfRead \/ ReadLoop

\* The control thread keeps running: a statement that can execute does, and a
\* blocking command that can return (its reply has come or its response
\* window has closed) does.  The device is under no obligation to send.
FairSpec == Init /\ [][Next]_vars /\ WF_vars(Control)

\* --------------------------------- a format command on arbitrary requests

\* Requests drawn for the command builder: a function code that is not
\* recognized beside the two main.rs uses, and every table of at most
\* MaxEntries entries over two channels and three decimations (0, one that
\* fits a byte, one that does not), beside the tables main.rs itself uses.
FunctionInputs == {0, Apply, Save}
EntryInputs == {4, 6} \X {0, 50, 300}
BoundedTables == UNION {[1..n -> EntryInputs] : n \in 0..MaxEntries}
ProgramTables ==
    {ConfigureImuEntries, ConfigureGnssEntries, EkfEstimationEntries,
     EkfGnssEntries} \cup {TableOf(f.payload) : f \in PacketFormatFields}

InitBuild ==
    /\ mode = "none"
    /\ pc = "fmt_build"
    /\ blocked = FALSE
    /\ lord = "idle"
    /\ reader = TRUE
    /\ outstanding = {}
    /\ sent = <<>>
    /\ ops = {"new", "start"}
    /\ stdout = <<>>
    /\ stderr = <<>>
    /\ exitCode = -1
    /\ err = NoError
    /\ buffer = <<>>
    /\ arrived = 0
    /\ polled = <<>>
    /\ clock = 0
    /\ seconds_since = EmptyMap
    /\ observed = <<>>
    /\ fn_in \in FunctionInputs
    /\ entries_in \in BoundedTables \cup ProgramTables
    /\ built = NotBuilt

\* configure_subsystem_format builds the packet for (fn_in, entries_in); a
\* request that cannot be built is returned as the error, nothing is sent.
FormatBuild ==
    /\ pc = "fmt_build"
    /\ built' = build_format_command(fn_in, entries_in)
    /\ IF built'.status = "ok"
       THEN pc' = "fmt_send" /\ UNCHANGED err
       ELSE pc' = "fmt_done" /\ err' = built'.status
    /\ UNCHANGED <<mode, blocked, lord, reader, outstanding, sent, ops, stdout,
                   stderr, exitCode, buffer, arrived, polled, clock,
                   seconds_since, observed, fn_in, entries_in>>

\* The packet mode's way to the same request: the field's bytes as written
\* in main.rs.
HandBuild ==
    /\ pc = "fmt_build"
    /\ \E f \in PacketFormatFields :
          /\ fn_in = f.payload[1]
          /\ entries_in = TableOf(f.payload)
          /\ built' = [status |-> "ok", payload |-> f.payload]
    /\ pc' = "fmt_send"
    /\ UNCHANGED <<mode, blocked, lord, reader, outstanding, sent, ops, stdout,
                   stderr, exitCode, err, buffer, arrived, polled, clock,
                   seconds_since, observed, fn_in, entries_in>>

\* The built packet is serialized and transmitted, or serialization fails.
FormatSend ==
    /\ pc = "fmt_send"
    /\ ~blocked
    /\ ops' = ops \cup {"send"}
    /\ \/ /\ Transmit("format")
          /\ UNCHANGED <<pc, err>>
       \/ /\ err' = "FrameError"
          /\ pc' = "fmt_done"
          /\ UNCHANGED <<outstanding, sent, lord, blocked>>
    /\ UNCHANGED <<mode, reader, stdout, stderr, exitCode, codecVars,
                   timingVars, builderVars>>

\* The acknowledgment, a negative acknowledgment or the timeout ends the call.
FormatReturn ==
    /\ pc = "fmt_send"
    /\ blocked
    /\ outstanding' = outstanding \ {"format"}
    /\ lord' = SessionAfter(outstanding')
    /\ blocked' = FALSE
    /\ pc' = "fmt_done"
    /\ \/ UNCHANGED err
       \/ \E e \in ReplyErrors : err' = e
    /\ UNCHANGED <<mode, reader, sent, ops, stdout, stderr, exitCode,
                   codecVars, timingVars, builderVars>>

NextBuild == FormatBuild \/ HandBuild \/ FormatSend \/ FormatReturn

SpecBuild == InitBuild /\ [][NextBuild]_vars

\* -------------------------------- polling beside a command in any order

\* Poll that takes the reply of the outstanding command when no telemetry is
\* buffered.
PollTakesReply ==
    /\ lord # "closed"
    /\ reader
    /\ ops' = ops \cup {"poll"}
                  \cup (IF lord = "awaiting" THEN {"poll_awaiting"} ELSE {})
    /\ IF HasData(buffer)
       THEN /\ polled' = Append(polled, NextData(buffer))
            /\ UNCHANGED <<outstanding, lord>>
       ELSE /\ UNCHANGED polled
            /\ outstanding' = {}
            /\ lord' = "idle"
    /\ buffer' = Drained(buffer)
    /\ UNCHANGED <<mode, pc, blocked, reader, sent, stdout, stderr, exitCode,
                   err, arrived, clock, seconds_since, observed, fn_in,
                   entries_in, built>>

\* poll_next_packet on the open session, at any moment of a format command:
\* the next decoded packet is taken from the codec's buffer, if there is one.
Poll ==
    /\ lord # "closed"
    /\ reader
    /\ ops' = ops \cup {"poll"}
                  \cup (IF lord = "awaiting" THEN {"poll_awaiting"} ELSE {})
    /\ IF HasData(buffer)
       THEN polled' = Append(polled, NextData(buffer))
       ELSE UNCHANGED polled
    /\ buffer' = Drained(buffer)
    /\ UNCHANGED <<mode, pc, blocked, lord, reader, outstanding, sent, stdout,
                   stderr, exitCode, err, arrived, clock, seconds_since,
                   observed, fn_in, entries_in, built>>

InitSession ==
    /\ mode = "none"
    /\ pc = "fmt_build"
    /\ blocked = FALSE
    /\ lord = "idle"
    /\ reader = TRUE
    /\ outstanding = {}
    /\ sent = <<>>
    /\ ops = {"new", "start"}
    /\ stdout = <<>>
    /\ stderr = <<>>
    /\ exitCode = -1
    /\ err = NoError
    /\ buffer = <<>>
    /\ arrived = 0
    /\ polled = <<>>
    /\ clock = 0
    /\ seconds_since = EmptyMap
    /\ observed = <<>>
    /\ fn_in = Apply
    /\ entries_in \in ProgramTables
    /\ built = NotBuilt

NextSession == FormatBuild \/ FormatSend \/ FormatReturn \/ Decode \/ Poll

SpecSession == InitSession /\ [][NextSession]_vars

\* ------------------------------------------------------------ properties

Last(q) == q[Len(q)]
Reported == [i \in 1..Len(stdout) |-> stdout[i].data]
ObservedDescriptors == {observed[i].descriptor : i \in 1..Len(observed)}

\* The observations before the i-th of the same descriptor.
EarlierSame(i) ==
    {j \in 1..(i - 1) : observed[j].descriptor = observed[i].descriptor}
Latest(S) == CHOOSE j \in S : \A k \in S : k <= j

\* C1: in the read loop the elapsed value printed with the i-th packet is 0
\* when no earlier packet had its descriptor, and otherwise the whole
\* milliseconds between its instant and that of the latest earlier packet of
\* the same descriptor, whatever arrived in between.
C1_ElapsedPerDescriptor ==
    mode = "read" =>
        /\ Len(stdout) = Len(observed)
        /\ \A i \in 1..Len(observed) :
              stdout[i].ms =
                 IF EarlierSame(i) = {} THEN 0
                 ELSE (observed[i].at - observed[Latest(EarlierSame(i))].at)
                          \div TicksPerMilli

C1_Witness ==
    /\ mode = "read"
    /\ Len(observed) = 3
    /\ observed[1].descriptor = observed[3].descriptor
    /\ observed[2].descriptor # observed[1].descriptor
    /\ observed[1].at < observed[2].at
    /\ observed[2].at < observed[3].at
    /\ stdout[3].ms = 2

\* C2: a read-loop step that observes a packet of descriptor d leaves the
\* entry of every other descriptor as it was, present or absent.
C2_OnlyOwnEntry ==
    [][(pc = "read_loop" /\ polled' # polled) =>
          \A e \in Descriptors \ {Last(polled').descriptor} :
             /\ (e \in DOMAIN seconds_since') = (e \in DOMAIN seconds_since)
             /\ e \in DOMAIN seconds_since =>
                   seconds_since'[e] = seconds_since[e]]_vars

C2_Witness ==
    /\ mode = "read"
    /\ Len(observed) = 3
    /\ observed[1].descriptor = 128
    /\ observed[2].descriptor = 129
    /\ observed[3].descriptor = 128
    /\ observed[2].at < observed[3].at
    /\ seconds_since[129] = observed[2].at
    /\ seconds_since[128] = observed[3].at

\* C3: in the read loop the packets printed are the packets the poll has
\* returned, each once and in that order, and the i-th of them is the i-th
\* packet the codec decoded.
C3_ReportedInOrder ==
    mode = "read" =>
        /\ Reported = polled
        /\ \A i \in 1..Len(stdout) : stdout[i].data.id = i

C3_Witness ==
    /\ mode = "read"
    /\ Len(stdout) = 3
    /\ buffer = <<>>
    /\ stdout[1].data.descriptor = stdout[2].data.descriptor
    /\ stdout[2].ms = 0
    /\ stdout[3].data.descriptor # stdout[1].data.descriptor

\* C4: the timing map is empty until the read loop has seen a packet; its
\* keys are the descriptors seen so far, each with the instant of the latest
\* packet of that descriptor; and no step removes a key.
C4_TimingState ==
    /\ [](/\ pc # "read_loop" => seconds_since = EmptyMap
          /\ DOMAIN seconds_since = ObservedDescriptors
          /\ \A i \in 1..Len(observed) :
                (\A j \in (i + 1)..Len(observed) :
                    observed[j].descriptor # observed[i].descriptor)
                => seconds_since[observed[i].descriptor] = observed[i].at)
    /\ [][DOMAIN seconds_since \subseteq DOMAIN seconds_since']_vars

C4_Witness ==
    /\ pc = "read_loop"
    /\ Len(observed) = 3
    /\ Cardinality(DOMAIN seconds_since) = 2
    /\ observed[1].descriptor = observed[2].descriptor
    /\ observed[1].at < observed[2].at
    /\ seconds_since[observed[1].descriptor] = observed[2].at

OpenFailed == stderr # <<>> /\ stderr[1].text = "Failed to open"

\* C5: once opening the transport has failed the process has reported it
\* and exited, and no Session operation was or is performed: the session is
\* never constructed or started, nothing is sent, nothing is polled.
C5_OpenFailureStops ==
    OpenFailed =>
        /\ pc = "exited"
        /\ exitCode = 0
        /\ stderr = <<Line("Failed to open")>>
        /\ ops = {}
        /\ lord = "closed"
        /\ ~reader
        /\ sent = <<>>
        /\ polled = <<>>
        /\ stdout = <<>>

C5_Witness == OpenFailed /\ pc = "exited" /\ mode = "configure"

\* C6: at most one command awaits its acknowledgment; the session is
\* awaiting-ack exactly while one does; and a command is transmitted only
\* from the idle session, which it leaves awaiting-ack.
C6_OneOutstanding ==
    /\ [](/\ Cardinality(outstanding) <= 1
          /\ (lord = "awaiting") = (outstanding # {})
          /\ blocked = (outstanding # {}))
    /\ [][sent' # sent => (lord = "idle" /\ lord' = "awaiting")]_vars

C6_Witness ==
    /\ mode = "ekf"
    /\ sent = <<"ekf_est", "ekf_gnss", "ekf_enable">>
    /\ lord = "awaiting"
    /\ outstanding = {"ekf_enable"}

ErrorPrinted ==
    \/ stderr # <<>> /\ Last(stderr) = [text |-> "Error", error |-> err]
    \/ stdout # <<>> /\ Last(stdout) = [text |-> "Error", error |-> err]

\* C7: once a command has returned an error, the error is printed and no
\* later step of the mode happens: nothing more is sent, printed or polled,
\* and outside the packet mode main has returned.
C7_ErrorsUnwind ==
    /\ [](err # NoError =>
            /\ ErrorPrinted
            /\ mode # "packet" => (pc = "done" /\ exitCode = 1))
    /\ [][err # NoError =>
            (sent' = sent /\ stdout' = stdout /\ stderr' = stderr
             /\ polled' = polled /\ ops' = ops /\ err' = err)]_vars

C7_Witness ==
    /\ mode = "configure"
    /\ err = "DeviceNack"
    /\ sent = <<"cfg_imu">>
    /\ stdout = <<>>
    /\ pc = "done"

\* C8: no command is transmitted twice, however it ended.
C8_NoRetry ==
    \A i, j \in 1..Len(sent) : i # j => sent[i] # sent[j]

C8_Witness ==
    /\ mode = "rate"
    /\ sent = <<"rate_imu", "rate_gnss">>
    /\ err = "Timeout"
    /\ pc = "done"

ValidTable(entries) ==
    entries # <<>> /\ \A i \in 1..Len(entries) : entries[i][2] > 0

\* C9: for a recognized function code and a non-empty table whose
\* decimations are all > 0, the request is built, and the payload is the
\* function, the number of entries, then per entry in order its channel and
\* its decimation in two bytes, high byte first: 2 + 3 * len(entries) bytes.
C9_FormatPayload ==
    (pc # "fmt_build" /\ fn_in \in RecognizedFunctions /\ ValidTable(entries_in))
    =>  /\ built.status = "ok"
        /\ Len(built.payload) = 2 + 3 * Len(entries_in)
        /\ built.payload[1] = fn_in
        /\ built.payload[2] = Len(entries_in)
        /\ \A i \in 1..Len(entries_in) :
              /\ built.payload[3 * i] = entries_in[i][1]
              /\ built.payload[3 * i + 1] \in 0..255
              /\ built.payload[3 * i + 2] \in 0..255
              /\ built.payload[3 * i + 1] * 256 + built.payload[3 * i + 2]
                    = entries_in[i][2]
        /\ (fn_in = Apply /\ entries_in = <<<<6, 50>>, <<4, 50>>>>)
              => built.payload = <<1, 2, 6, 0, 50, 4, 0, 50>>

C9_Witness ==
    /\ pc = "fmt_done"
    /\ fn_in = Apply
    /\ entries_in = <<<<6, 50>>, <<4, 300>>>>
    /\ built.status = "ok"
    /\ sent = <<"format">>

HasZeroDecimation(entries) == \E i \in 1..Len(entries) : entries[i][2] = 0

\* C10: a request with a decimation of 0 in any entry is never built into a
\* packet and never sent; it ends in InvalidConfiguration.
C10_ZeroDecimationFails ==
    HasZeroDecimation(entries_in) =>
        /\ sent = <<>>
        /\ built.status \in {"none", "InvalidConfiguration"}
        /\ pc # "fmt_build" =>
              (built = InvalidConfiguration /\ err = "InvalidConfiguration"
               /\ pc = "fmt_done")

C10_Witness ==
    /\ pc = "fmt_done"
    /\ fn_in = Apply
    /\ entries_in = <<<<6, 50>>, <<4, 0>>>>
    /\ built = InvalidConfiguration


\* C11: an apply request with an empty entry table is never built into a
\* packet and never sent; it ends in InvalidConfiguration.
C11_EmptyApplyFails ==
    (fn_in = Apply /\ entries_in = <<>>) =>
        /\ sent = <<>>
        /\ built.status \in {"none", "InvalidConfiguration"}
        /\ pc # "fmt_build" =>
              (built = InvalidConfiguration /\ err = "InvalidConfiguration"
               /\ pc = "fmt_done" /\ lord = "idle")

C11_Witness ==
    /\ pc = "fmt_done"
    /\ fn_in = Apply
    /\ entries_in = <<>>
    /\ built = InvalidConfiguration
    /\ sent = <<>>


PolledIds == {polled[i].id : i \in 1..Len(polled)}

\* C12: a poll of the streaming loops returns nothing and changes nothing
\* when the codec has no buffered packet, and otherwise returns the oldest
\* buffered packet and removes it; no packet is ever returned twice or left
\* in the buffer after it was returned.
C12_ConsumeOnce ==
    /\ [](/\ Cardinality(PolledIds) = Len(polled)
          /\ \A i \in 1..Len(buffer) : buffer[i].id \notin PolledIds)
    /\ [][(pc \in {"test_loop", "read_loop"} /\ arrived' = arrived) =>
            IF buffer = <<>>
            THEN polled' = polled /\ buffer' = buffer
            ELSE polled' = Append(polled, Head(buffer))
                 /\ buffer' = Tail(buffer)]_vars

C12_Witness ==
    /\ mode = "test"
    /\ "poll" \in ops
    /\ Len(polled) = 2
    /\ buffer = <<>>
    /\ arrived = 2
    /\ polled[1].descriptor = polled[2].descriptor

PollStep == polled' # polled \/ ("poll" \in ops' /\ "poll" \notin ops)
             \/ ("poll_awaiting" \in ops' /\ "poll_awaiting" \notin ops)

\* C13: a poll is possible whenever the session is open, also while a
\* command awaits its acknowledgment; it leaves the session state, the
\* outstanding command and the caller's wait as they were, taking at most one
\* decoded packet from the buffer, and the command can still return.
C13_PollBesideCommand ==
    /\ [](lord # "closed" => ENABLED Poll)
    /\ [](blocked => (outstanding = {"format"} /\ lord = "awaiting"
                      /\ ENABLED FormatReturn))
    /\ [][PollStep =>
            /\ lord' = lord
            /\ outstanding' = outstanding
            /\ blocked' = blocked
            /\ sent' = sent
            /\ err' = err
            /\ pc' = pc
            /\ buffer' = Drained(buffer)]_vars

C13_Witness ==
    /\ "poll_awaiting" \in ops
    /\ Len(polled) = 2
    /\ pc = "fmt_done"
    /\ err = NoError
    /\ sent = <<"format">>
    /\ lord = "idle"


\* The mode whose block of main() a position, a command or a printed line
\* belongs to ("" for the positions outside every block).
PcMode(p) ==
    CASE p = "test_loop" -> "test"
      [] p \in {"rate_imu", "rate_gnss"} -> "rate"
      [] p \in {"cfg_imu", "cfg_gnss"} -> "configure"
      [] p \in {"packet_bytes", "packet_send"} -> "packet"
      [] p \in {"ekf_est", "ekf_gnss", "ekf_enable"} -> "ekf"
      [] p = "read_loop" -> "read"
      [] OTHER -> ""
LineMode(t) ==
    CASE t = "data" -> "test"
      [] t \in {"IMU Rate", "GNSS Rate"} -> "rate"
      [] t \in {"IMU Configured", "GNSS Configured"} -> "configure"
      [] t \in {"packet bytes", "Sent", "Error"} -> "packet"
      [] t = "read" -> "read"
      [] OTHER -> ""

\* C14: whatever was done in a run belongs to the one subcommand matched:
\* the control thread is inside no other mode's block, every command sent
\* and every line printed is that mode's, and packets are polled only in
\* test or read.
C14_OneMode ==
    /\ PcMode(pc) \in {"", mode}
    /\ \A i \in 1..Len(sent) : PcMode(sent[i]) = mode
    /\ \A i \in 1..Len(stdout) : LineMode(stdout[i].text) = mode
    /\ polled # <<>> => mode \in {"test", "read"}
    /\ "poll" \in ops => mode \in {"test", "read"}
    /\ observed # <<>> => mode = "read"
    /\ mode \in {"list", "none"} => ops \subseteq {"new", "start"}

C14_Witness ==
    /\ mode = "packet"
    /\ pc = "done"
    /\ exitCode = 0
    /\ sent = <<"packet_send">>
    /\ Last(stdout) = Line("Sent")


\* The commands transmitted so far, each format command with its request.
SentRequests ==
    [i \in 1..Len(sent) |->
        IF sent[i] \in FormatSites
        THEN [site |-> sent[i], function |-> SiteFunction(sent[i]),
              entries |-> SiteEntries(sent[i])]
        ELSE [site |-> sent[i]]]

IsPrefix(p, q) == Len(p) <= Len(q) /\ p = SubSeq(q, 1, Len(p))

ConfigureCommands ==
    << [site |-> "cfg_imu", function |-> 1,
        entries |-> <<<<6, 50>>, <<4, 50>>, <<5, 50>>, <<10, 50>>, <<23, 50>>>>],
       [site |-> "cfg_gnss", function |-> 1,
        entries |-> <<<<9, 5>>, <<11, 5>>, <<3, 5>>, <<7, 5>>, <<4, 5>>>>] >>

\* C15: what configure transmits is the IMU format command (function 0x01,
\* channels 0x06 0x04 0x05 0x0A 0x17 at 50) and then the GNSS format command
\* (function 0x01, channels 0x09 0x0B 0x03 0x07 0x04 at 5), nothing else; a
\* run that ends normally has sent both; and the GNSS command is transmitted
\* only once the IMU command was acknowledged.
C15_ConfigureSequence ==
    /\ [](mode = "configure" =>
            /\ IsPrefix(SentRequests, ConfigureCommands)
            /\ (pc = "done" /\ exitCode = 0) => Len(sent) = 2)
    /\ [][(mode = "configure" /\ sent' # sent /\ Last(sent') = "cfg_gnss") =>
            /\ sent = <<"cfg_imu">>
            /\ outstanding = {}
            /\ err = NoError
            /\ stdout = <<Line("IMU Configured")>>]_vars

C15_Witness ==
    /\ mode = "configure"
    /\ pc = "done"
    /\ exitCode = 0
    /\ sent = <<"cfg_imu", "cfg_gnss">>
    /\ stdout = <<Line("IMU Configured"), Line("GNSS Configured")>>


StreamingLoops == {"test_loop", "read_loop"}

\* C16: a streaming loop, once entered, is never left: every later step
\* keeps the control thread in the loop with the process running, whether
\* or not packets arrive, and a test or read run never returns from main.
C16_LoopsNeverEnd ==
    /\ [](/\ pc \in StreamingLoops => (exitCode = -1 /\ lord = "idle")
          /\ mode \in {"test", "read"} => pc # "done")
    /\ [][(pc \in StreamingLoops) => (pc' = pc /\ exitCode' = exitCode)]_vars

C16_Witness ==
    /\ pc = "read_loop"
    /\ Len(polled) = 3
    /\ buffer = <<>>
    /\ arrived = 3
    /\ exitCode = -1


Terminated == pc \in {"done", "exited"}

\* C17: a control thread blocked in a command is eventually released, with
\* an acknowledgment, a negative acknowledgment or a timeout, and a run of
\* rate, configure, packet, ekf or list eventually terminates.
C17_CommandsReturn ==
    /\ [](blocked => <>(~blocked))
    /\ [][(blocked /\ ~blocked') => err' \in {NoError} \cup ReplyErrors]_vars
    /\ (mode \in {"rate", "configure", "packet", "ekf", "list"}) => <>Terminated

C17_Witness ==
    /\ mode = "ekf"
    /\ pc = "done"
    /\ err = "Timeout"
    /\ sent = <<"ekf_est", "ekf_gnss", "ekf_enable">>
    /\ ~blocked


EkfCommands == <<"ekf_est", "ekf_gnss", "ekf_enable">>

\* C18: ekf transmits the estimation format command, the GNSS format command
\* and the packet enabling the stream, in that order and nothing else; each
\* is transmitted only when every command before it was acknowledged, so the
\* stream is enabled only after both formats were applied.
C18_EnableAfterFormats ==
    /\ [](mode = "ekf" => IsPrefix(sent, EkfCommands))
    /\ [][(mode = "ekf" /\ sent' # sent) =>
            /\ outstanding = {}
            /\ err = NoError
            /\ lord = "idle"
            /\ Last(sent') = "ekf_enable" => sent = <<"ekf_est", "ekf_gnss">>]_vars

C18_Witness ==
    /\ mode = "ekf"
    /\ pc = "done"
    /\ err = "DeviceNack"
    /\ sent = <<"ekf_est", "ekf_gnss">>
    /\ exitCode = 1

\* C19: a test or read run never sends a command (the session never awaits
\* an acknowledgment), and a rate, configure, packet or ekf run never polls
\* or consumes a telemetry packet, even when packets were decoded.
C19_StreamOrCommand ==
    /\ mode \in {"test", "read"} =>
          (sent = <<>> /\ "send" \notin ops /\ lord # "awaiting"
           /\ outstanding = {} /\ ~blocked)
    /\ mode \in {"rate", "configure", "packet", "ekf"} =>
          (polled = <<>> /\ "poll" \notin ops /\ observed = <<>>
           /\ Len(buffer) = arrived)

C19_Witness ==
    /\ mode = "ekf"
    /\ pc = "done"
    /\ exitCode = 0
    /\ Len(sent) = 3
    /\ Len(buffer) = 3

====
